---- MODULE Spec2Model ----
(***************************************************************************)
(* Model of src/main.py: the ActivationWorker of composition_testing.      *)
(*                                                                         *)
(* The worker owns two lifecycle fields (change_state, activation_state)   *)
(* and an optional device.  Its eight step methods mutate these fields and *)
(* raise one typed error each when the matching module-level fault flag is *)
(* set.  run_activation calls the steps of a list in order, catches the    *)
(* first typed error and hands it to handle_error, which runs chained      *)
(* compensating calls such as                                              *)
(*     self.close_change().upload_artifacts().create_incident(error)       *)
(* Each method call is one step of the model.                              *)
(***************************************************************************)
EXTENDS Integers, Sequences, FiniteSets, TLC

VARIABLES
    faults,            \* the _ERROR_ON_* module globals that are truthy
    change_state,      \* self.change_state
    activation_state,  \* self.activation_state
    device,            \* self.device
    incidents,         \* the incidents recorded so far (the "created incident" log lines)
    pc,                \* position of the program
    step_index,        \* position of the for loop of run_activation in steps
    error,             \* the error bound by the except clause of run_activation
    block,             \* the if statement of handle_error that is evaluated next
    chain,             \* the calls that remain in the current call chain
    ret,               \* what the previous call of the chain returned
    in_try,            \* inside the try of the CloseChangeError block
    raised,            \* the error that left run_activation, if any
    calls,             \* history: the calls made during run_activation
    last,              \* history: the most recent call and the state before it
    sleeps,            \* history: the number of time.sleep(3) calls
    handled            \* history: the number of handle_error invocations

vars == <<faults, change_state, activation_state, device, incidents, pc,
          step_index, error, block, chain, ret, in_try, raised, calls, last,
          sleeps, handled>>

-----------------------------------------------------------------------------
(* Fault flags, lifecycle enumerations, error kinds.                       *)

Flags ==
    {"ERROR_ON_GET_DEVICE", "ERROR_ON_CHECK_MODULE", "ERROR_ON_IMPLEMENT_CHANGE",
     "ERROR_ON_PRE_CHECKS", "ERROR_ON_ACTIVATION", "ERROR_ON_CLOSE_CHANGE",
     "ERROR_ON_UPLOAD_ARTIFACTS", "ERROR_ON_CREATE_INCIDENT",
     "ERROR_ON_CANCEL_CHANGE"}

ChangeState == {"NEW", "ASSESS", "SCHEDULED", "IMPLEMENT", "CLOSED", "CANCELLED"}

ActivationState ==
    {"NOT_STARTED", "CHECK_MODULE", "PRE_CHECK", "START_ACTIVATION",
     "ACTIVATION_COMPLETED"}

\* self.device = None, written as a record so that it compares with Device
NoDevice == [hostname |-> "None", ci_item_name |-> "None"]

Device == [hostname |-> "switch-1.cisco.com", ci_item_name |-> "switch-1"]

NoError == "NoError"

\* the error classes imported from composition_test.exceptions
StepErrors ==
    {"GetDeviceError", "CheckModuleError", "ImplementChangeError",
     "PreCheckError", "ActivationError", "CloseChangeError",
     "CancelChangeError", "UploadArtifactsError"}

\* AttributeError is what Python raises for a method lookup on None
ErrorKinds == StepErrors \cup {"CreateIncidentError", "AttributeError"}

\* isinstance(error, kind): the classes of composition_test.exceptions are
\* taken to be unrelated to each other (a closed taxonomy, one kind per action)
isinstance(e, kind) == e = kind

-----------------------------------------------------------------------------
(* The step methods, as functions of the worker w and the fault flags f.   *)
(* A result holds the worker after the call, the returned value ("self" or *)
(* "None") and the raised error (NoError when the call returned).          *)

Return(w, value) == [w |-> w, ret |-> value, exc |-> NoError]

Raise(w, kind) == [w |-> w, ret |-> "None", exc |-> kind]

get_device_info(w, f) ==
    IF "ERROR_ON_GET_DEVICE" \in f
    THEN Raise(w, "GetDeviceError")
    ELSE Return([w EXCEPT !.device = Device], "self")

check_module(w, f) ==
    IF "ERROR_ON_CHECK_MODULE" \in f
    THEN Raise(w, "CheckModuleError")
    ELSE Return([w EXCEPT !.activation_state = "CHECK_MODULE"], "self")

\* variant: the assignment of change_state left out
implement_change_no_assign(w, f) ==
    IF "ERROR_ON_IMPLEMENT_CHANGE" \in f
    THEN Raise(w, "ImplementChangeError")
    ELSE Return(w, "self")

implement_change(w, f) ==
    IF "ERROR_ON_IMPLEMENT_CHANGE" \in f
    THEN Raise(w, "ImplementChangeError")
    ELSE Return([w EXCEPT !.change_state = "IMPLEMENT"], "self")

activation_pre_checks(w, f) ==
    IF "ERROR_ON_PRE_CHECKS" \in f
    THEN Raise(w, "PreCheckError")
    ELSE Return([w EXCEPT !.activation_state = "PRE_CHECK"], "self")

\* variant: START_ACTIVATION assigned after the fault check
activate_device_late_start(w, f) ==
    IF "ERROR_ON_ACTIVATION" \in f
    THEN Raise(w, "ActivationError")
    ELSE Return([w EXCEPT !.activation_state = "ACTIVATION_COMPLETED"], "self")

activate_device(w, f) ==
    LET started == [w EXCEPT !.activation_state = "START_ACTIVATION"]
    IN  IF "ERROR_ON_ACTIVATION" \in f
        THEN Raise(started, "ActivationError")
        ELSE Return([started EXCEPT !.activation_state = "ACTIVATION_COMPLETED"],
                    "self")

\* variant: the test of activation_state inverted
close_change_inverted(w, f) ==
    IF "ERROR_ON_CLOSE_CHANGE" \in f
    THEN Raise(w, "CloseChangeError")
    ELSE IF w.activation_state = "ACTIVATION_COMPLETED"
         THEN Return(w, "None")
         ELSE Return([w EXCEPT !.change_state = "CLOSED"], "self")

\* variant: the test of activation_state left out
close_change_unguarded(w, f) ==
    IF "ERROR_ON_CLOSE_CHANGE" \in f
    THEN Raise(w, "CloseChangeError")
    ELSE Return([w EXCEPT !.change_state = "CLOSED"], "self")

close_change(w, f) ==
    IF "ERROR_ON_CLOSE_CHANGE" \in f
    THEN Raise(w, "CloseChangeError")
    ELSE IF w.activation_state # "ACTIVATION_COMPLETED"
         THEN Return(w, "None")
         ELSE Return([w EXCEPT !.change_state = "CLOSED"], "self")

cancel_change(w, f) ==
    IF "ERROR_ON_CANCEL_CHANGE" \in f
    THEN Raise(w, "CancelChangeError")
    ELSE Return([w EXCEPT !.change_state = "CANCELLED"], "self")

upload_artifacts(w, f) ==
    IF "ERROR_ON_UPLOAD_ARTIFACTS" \in f
    THEN Raise(w, "UploadArtifactsError")
    ELSE Return(w, "self")

create_service_offering_incident(w, f, e) ==
    IF "ERROR_ON_CREATE_INCIDENT" \in f
    THEN Raise(w, "CreateIncidentError")
    ELSE Return([w EXCEPT !.incidents =
                     Append(@, [class |-> "service-offering", error |-> e])],
                "self")

create_software_incident(w, f, e) ==
    Return([w EXCEPT !.incidents =
                Append(@, [class |-> "software", error |-> e])],
           "self")

create_incident(w, f, e) ==
    IF isinstance(e, "ActivationError")
    THEN create_service_offering_incident(w, f, e)
    ELSE create_software_incident(w, f, e)

StepOps ==
    {"get_device_info", "check_module", "implement_change",
     "activation_pre_checks", "activate_device", "close_change",
     "cancel_change", "upload_artifacts"}

Ops == StepOps \cup {"create_incident"}

\* the call of the method named op; e is the argument of create_incident
Invoke(op, w, f, e) ==
    CASE op = "get_device_info"       -> get_device_info(w, f)
      [] op = "check_module"          -> check_module(w, f)
      [] op = "implement_change"      -> implement_change(w, f)
      [] op = "activation_pre_checks" -> activation_pre_checks(w, f)
      [] op = "activate_device"       -> activate_device(w, f)
      [] op = "close_change"          -> close_change(w, f)
      [] op = "cancel_change"         -> cancel_change(w, f)
      [] op = "upload_artifacts"      -> upload_artifacts(w, f)
      [] op = "create_incident"       -> create_incident(w, f, e)

-----------------------------------------------------------------------------
(* main, run_activation and handle_error.                                  *)

\* the list main passes to run_activation
steps ==
    <<"get_device_info", "check_module", "implement_change",
      "activation_pre_checks", "activate_device", "close_change",
      "upload_artifacts">>

\* variant: ImplementChangeError missing from the except clause
Caught_without_implement == StepErrors \ {"ImplementChangeError"}

\* the except clause of run_activation
Caught == StepErrors

\* variant: the third if statement tests ImplementChangeError
BlockKind_implement(k) ==
    CASE k = 1 -> "GetDeviceError"
      [] k = 2 -> "CheckModuleError"
      [] k = 3 -> "ImplementChangeError"
      [] k = 4 -> "ActivationError"
      [] k = 5 -> "CloseChangeError"
      [] k = 6 -> "UploadArtifactsError"

\* variant: the last if statement tests CloseChangeError again
BlockKind_close_twice(k) ==
    CASE k = 1 -> "GetDeviceError"
      [] k = 2 -> "CheckModuleError"
      [] k = 3 -> "PreCheckError"
      [] k = 4 -> "ActivationError"
      [] k = 5 -> "CloseChangeError"
      [] k = 6 -> "CloseChangeError"

\* the kind tested by the k-th if statement of handle_error
BlockKind(k) ==
    CASE k = 1 -> "GetDeviceError"
      [] k = 2 -> "CheckModuleError"
      [] k = 3 -> "PreCheckError"
      [] k = 4 -> "ActivationError"
      [] k = 5 -> "CloseChangeError"
      [] k = 6 -> "UploadArtifactsError"

NumBlocks == 6

\* the blocks that start with time.sleep(3)
SleepBlocks == {5, 6}

\* variant: the test of change_state in the first two blocks inverted
BlockChain_inverted(k, cs) ==
    CASE k \in {1, 2} ->
           IF cs # "IMPLEMENT"
           THEN <<"close_change", "upload_artifacts", "create_incident">>
           ELSE <<"cancel_change", "upload_artifacts", "create_incident">>
      [] k \in {3, 4} -> <<"close_change", "upload_artifacts", "create_incident">>
      [] k = 5 -> <<"close_change", "upload_artifacts">>
      [] k = 6 -> <<"upload_artifacts">>

\* variant: the UploadArtifactsError block cancels the change before the retry
BlockChain_cancel_on_upload(k, cs) ==
    CASE k \in {1, 2} ->
           IF cs = "IMPLEMENT"
           THEN <<"close_change", "upload_artifacts", "create_incident">>
           ELSE <<"cancel_change", "upload_artifacts", "create_incident">>
      [] k \in {3, 4} -> <<"close_change", "upload_artifacts", "create_incident">>
      [] k = 5 -> <<"close_change", "upload_artifacts">>
      [] k = 6 -> <<"cancel_change", "upload_artifacts">>

\* variant: the UploadArtifactsError block creates an incident after the retry
BlockChain_incident_on_upload(k, cs) ==
    CASE k \in {1, 2} ->
           IF cs = "IMPLEMENT"
           THEN <<"close_change", "upload_artifacts", "create_incident">>
           ELSE <<"cancel_change", "upload_artifacts", "create_incident">>
      [] k \in {3, 4} -> <<"close_change", "upload_artifacts", "create_incident">>
      [] k = 5 -> <<"close_change", "upload_artifacts">>
      [] k = 6 -> <<"upload_artifacts", "create_incident">>

\* the call chain that the body of the k-th if statement runs
BlockChain(k, cs) ==
    CASE k \in {1, 2} ->
           IF cs = "IMPLEMENT"
           THEN <<"close_change", "upload_artifacts", "create_incident">>
           ELSE <<"cancel_change", "upload_artifacts", "create_incident">>
      [] k \in {3, 4} -> <<"close_change", "upload_artifacts", "create_incident">>
      [] k = 5 -> <<"close_change", "upload_artifacts">>
      [] k = 6 -> <<"upload_artifacts">>

\* variant: UploadArtifactsError missing from the inner except clause
RetryCaught_close_only == {"CloseChangeError"}

\* the errors caught by the except clause inside the CloseChangeError block
RetryCaught == {"CloseChangeError", "UploadArtifactsError"}

\* variant: the except handler tries close_change and upload_artifacts again
RetryHandler_retry_again ==
    <<"close_change", "upload_artifacts", "create_incident">>

\* the chain of the except handler of the CloseChangeError block
RetryHandler == <<"create_incident">>

Worker ==
    [change_state |-> change_state, activation_state |-> activation_state,
     device |-> device, incidents |-> incidents]

CallRecord(op, by, w, r) ==
    [op |-> op, by |-> by, exc |-> r.exc, ret |-> r.ret, pre |-> w]

NoCall == [op |-> "none", by |-> "none", exc |-> NoError, ret |-> "None",
           pre |-> [change_state |-> "SCHEDULED",
                    activation_state |-> "NOT_STARTED",
                    device |-> NoDevice, incidents |-> <<>>]]

SetWorker(w) ==
    /\ change_state' = w.change_state
    /\ activation_state' = w.activation_state
    /\ device' = w.device
    /\ incidents' = w.incidents

\* ActivationWorker.__init__ and the module globals read from the environment
InitWorker ==
    /\ faults \in SUBSET Flags
    /\ change_state = "SCHEDULED"
    /\ activation_state = "NOT_STARTED"
    /\ device = NoDevice
    /\ incidents = <<>>
    /\ step_index = 1
    /\ error = NoError
    /\ block = 1
    /\ chain = <<>>
    /\ ret = "self"
    /\ in_try = FALSE
    /\ raised = NoError
    /\ calls = <<>>
    /\ last = NoCall
    /\ sleeps = 0
    /\ handled = 0

Init ==
    /\ InitWorker
    /\ pc = "run_activation"

\* one iteration of the for loop of run_activation: step()
RunStep(op) ==
    /\ pc = "run_activation"
    /\ step_index <= Len(steps)
    /\ steps[step_index] = op
    /\ LET r == Invoke(op, Worker, faults, error)
       IN  /\ SetWorker(r.w)
           /\ calls' = Append(calls, CallRecord(op, "run_activation", Worker, r))
           /\ last' = CallRecord(op, "run_activation", Worker, r)
           /\ IF r.exc = NoError
              THEN /\ step_index' = step_index + 1
                   /\ pc' = IF step_index = Len(steps) THEN "done" ELSE pc
                   /\ UNCHANGED <<error, raised>>
              ELSE IF r.exc \in Caught
              THEN /\ error' = r.exc
                   /\ pc' = "handle_error"
                   /\ UNCHANGED <<step_index, raised>>
              ELSE /\ raised' = r.exc
                   /\ pc' = "done"
                   /\ UNCHANGED <<step_index, error>>
    /\ UNCHANGED <<faults, block, chain, ret, in_try, sleeps, handled>>

\* variant: handle_error without the check of _ERROR_ON_CREATE_INCIDENT
handle_error_unchecked ==
    /\ pc = "handle_error"
    /\ handled' = handled + 1
    /\ pc' = "dispatch"
    /\ block' = 1
    /\ UNCHANGED <<faults, change_state, activation_state, device, incidents,
                   step_index, error, chain, ret, in_try, raised, calls, last,
                   sleeps>>

\* entry of handle_error: the check of _ERROR_ON_CREATE_INCIDENT
handle_error ==
    /\ pc = "handle_error"
    /\ handled' = handled + 1
    /\ IF "ERROR_ON_CREATE_INCIDENT" \in faults
       THEN /\ raised' = "CreateIncidentError"
            /\ pc' = "done"
            /\ UNCHANGED block
       ELSE /\ pc' = "dispatch"
            /\ block' = 1
            /\ UNCHANGED raised
    /\ UNCHANGED <<faults, change_state, activation_state, device, incidents,
                   step_index, error, chain, ret, in_try, calls, last, sleeps>>

\* the first if statement from position k on whose isinstance test holds
RECURSIVE NextBlock(_, _)
NextBlock(k, e) ==
    IF k > NumBlocks THEN k
    ELSE IF isinstance(e, BlockKind(k)) THEN k
    ELSE NextBlock(k + 1, e)

\* the if statements of handle_error, in order; "return self" after the last
Dispatch ==
    /\ pc = "dispatch"
    /\ LET k == NextBlock(block, error)
       IN  /\ block' = k
           /\ IF k > NumBlocks
              THEN /\ pc' = "done"
                   /\ UNCHANGED <<chain, ret>>
              ELSE IF k \in SleepBlocks
              THEN /\ pc' = "sleep"
                   /\ UNCHANGED <<chain, ret>>
              ELSE /\ pc' = "chain"
                   /\ chain' = BlockChain(k, change_state)
                   /\ ret' = "self"
    /\ UNCHANGED <<faults, change_state, activation_state, device, incidents,
                   step_index, error, in_try, raised, calls, last, sleeps,
                   handled>>

\* time.sleep(3) at the head of the CloseChangeError and UploadArtifactsError blocks
Sleep ==
    /\ pc = "sleep"
    /\ sleeps' = sleeps + 1
    /\ pc' = "chain"
    /\ chain' = BlockChain(block, change_state)
    /\ ret' = "self"
    /\ in_try' = (block = 5)
    /\ UNCHANGED <<faults, change_state, activation_state, device, incidents,
                   step_index, error, block, raised, calls, last, handled>>

\* an error raised inside handle_error: caught by the inner except or not at all
Throw(kind) ==
    IF in_try /\ kind \in RetryCaught
    THEN /\ in_try' = FALSE
         /\ chain' = RetryHandler
         /\ ret' = "self"
         /\ pc' = "chain"
         /\ UNCHANGED <<raised, block>>
    ELSE /\ raised' = kind
         /\ pc' = "done"
         /\ UNCHANGED <<in_try, chain, ret, block>>

\* the next call of a chain inside handle_error
ChainCall(op) ==
    /\ pc = "chain"
    /\ chain # <<>>
    /\ Head(chain) = op
    /\ ret = "self"
    /\ LET r == Invoke(op, Worker, faults, error)
       IN  /\ SetWorker(r.w)
           /\ calls' = Append(calls, CallRecord(op, "handle_error", Worker, r))
           /\ last' = CallRecord(op, "handle_error", Worker, r)
           /\ IF r.exc # NoError
              THEN Throw(r.exc)
              ELSE IF Tail(chain) = <<>>
              THEN /\ pc' = "dispatch"
                   /\ block' = block + 1
                   /\ chain' = <<>>
                   /\ ret' = "self"
                   /\ in_try' = FALSE
                   /\ UNCHANGED raised
              ELSE /\ chain' = Tail(chain)
                   /\ ret' = r.ret
                   /\ UNCHANGED <<pc, block, in_try, raised>>
    /\ UNCHANGED <<faults, step_index, error, sleeps, handled>>

\* the method lookup on the None returned by the previous call of the chain
AttributeError ==
    /\ pc = "chain"
    /\ chain # <<>>
    /\ ret = "None"
    /\ Throw("AttributeError")
    /\ UNCHANGED <<faults, change_state, activation_state, device, incidents,
                   step_index, error, calls, last, sleeps, handled>>

Call(op) == RunStep(op) \/ ChainCall(op)

Next ==
    \/ Call("get_device_info")
    \/ Call("check_module")
    \/ Call("implement_change")
    \/ Call("activation_pre_checks")
    \/ Call("activate_device")
    \/ Call("close_change")
    \/ Call("cancel_change")
    \/ Call("upload_artifacts")
    \/ Call("create_incident")
    \/ handle_error
    \/ Dispatch
    \/ Sleep
    \/ AttributeError

Spec == Init /\ [][Next]_vars

-----------------------------------------------------------------------------
(* Faults chosen per call: the fault flags are module globals that are     *)
(* read again at every call, so a harness that rebinds one of them between *)
(* two calls changes the outcome of the calls that follow.                 *)

SetFault ==
    /\ pc \in {"run_activation", "handle_error", "chain", "sleep"}
    /\ \E flag \in Flags :
          faults' = IF flag \in faults THEN faults \ {flag}
                    ELSE faults \cup {flag}
    /\ UNCHANGED <<change_state, activation_state, device, incidents, pc,
                   step_index, error, block, chain, ret, in_try, raised,
                   calls, last, sleeps, handled>>

NextPerCall == Next \/ SetFault

SpecPerCall == Init /\ [][NextPerCall]_vars

-----------------------------------------------------------------------------
(* The step methods called directly, in any order, on a fresh worker.      *)

InitSteps ==
    /\ InitWorker
    /\ pc = "steps"

StepCall(op) ==
    /\ pc = "steps"
    /\ LET r == Invoke(op, Worker, faults, error)
       IN  /\ SetWorker(r.w)
           /\ last' = CallRecord(op, "caller", Worker, r)
    /\ UNCHANGED <<faults, pc, step_index, error, block, chain, ret, in_try,
                   raised, calls, sleeps, handled>>

NextSteps ==
    \/ StepCall("get_device_info")
    \/ StepCall("check_module")
    \/ StepCall("implement_change")
    \/ StepCall("activation_pre_checks")
    \/ StepCall("activate_device")
    \/ StepCall("close_change")
    \/ StepCall("cancel_change")
    \/ StepCall("upload_artifacts")

SpecSteps == InitSteps /\ [][NextSteps]_vars

-----------------------------------------------------------------------------
(* Any use of the worker: the run of main, or step methods called directly *)
(* in any order and then handle_error called directly with a step error.   *)

InitDirect ==
    /\ InitWorker
    /\ pc \in {"run_activation", "steps"}

\* worker.handle_error(e) called by the caller of the step methods
CallHandler ==
    /\ pc = "steps"
    /\ \E e \in StepErrors : error' = e
    /\ pc' = "handle_error"
    /\ last' = [op |-> "handle_error", by |-> "caller", exc |-> NoError,
                ret |-> "None", pre |-> Worker]
    /\ UNCHANGED <<faults, change_state, activation_state, device, incidents,
                   step_index, block, chain, ret, in_try, raised, calls,
                   sleeps, handled>>

NextDirect == Next \/ NextSteps \/ CallHandler

SpecDirect == InitDirect /\ [][NextDirect]_vars

-----------------------------------------------------------------------------
(* The run of main with faults chosen per call, under the scheduling of a  *)
(* single thread: the program takes its next step whenever it has one.     *)

SpecPerCallFair == SpecPerCall /\ WF_vars(Next)

-----------------------------------------------------------------------------
(* Properties.                                                             *)

Done == pc = "done"

ByRun(c) == c.by = "run_activation"

ByHandler(c) == c.by = "handle_error"

\* the calls made by the for loop of run_activation
PrimaryCalls == SelectSeq(calls, ByRun)

\* the calls made by handle_error
RecoveryCalls == SelectSeq(calls, ByHandler)

OpsOf(cs) == [k \in 1..Len(cs) |-> cs[k].op]

AllOk(cs) == \A k \in 1..Len(cs) : cs[k].exc = NoError

Count(cs, op) == Cardinality({k \in 1..Len(cs) : cs[k].op = op})

Recovery3(first) == <<first, "upload_artifacts", "create_incident">>

\* C1: with no fault injected the seven steps run in the order of the list,
\* handle_error is never called, and the run ends with ChangeState = CLOSED,
\* ActivationState = ACTIVATION_COMPLETED and no incident.
C1_NoFaultRun ==
    faults = {} =>
        /\ handled = 0
        /\ pc # "handle_error"
        /\ OpsOf(calls) = SubSeq(steps, 1, Len(calls))
        /\ AllOk(calls)
        /\ Done => /\ OpsOf(calls) = steps
                   /\ raised = NoError
                   /\ change_state = "CLOSED"
                   /\ activation_state = "ACTIVATION_COMPLETED"
                   /\ incidents = <<>>

C1_Witness == faults = {} /\ Done /\ Len(calls) = 7

\* C2: the primary calls are a prefix of the list (no step is executed again),
\* only the last of them can have failed (no step runs after a failure), and
\* handle_error is invoked exactly once, with the error of the failing step,
\* exactly when a primary step failed.
C2_FirstFailureDispatchedOnce ==
    LET P == PrimaryCalls
        n == Len(P)
    IN  /\ OpsOf(P) = SubSeq(steps, 1, n)
        /\ \A k \in 1..(n - 1) : P[k].exc = NoError
        /\ handled <= 1
        /\ (n > 0 /\ P[n].exc # NoError) =>
              /\ error = P[n].exc
              /\ \/ pc = "handle_error" /\ handled = 0
                 \/ handled = 1
              /\ \A k \in 1..Len(calls) : ByRun(calls[k]) <=> k <= n
        /\ (handled = 1 \/ pc = "handle_error" \/ RecoveryCalls # <<>>) =>
              (n > 0 /\ P[n].exc # NoError)

C2_Witness ==
    /\ Done
    /\ handled = 1
    /\ error = "CheckModuleError"
    /\ Len(PrimaryCalls) = 2
    /\ Len(RecoveryCalls) = 3

\* C3 (as claimed): whatever the fault pattern, run_activation returns
\* normally; no error leaves it.
C3_AlwaysReturnsNormally == Done => raised = NoError

\* C4: when get_device_info or check_module is the only faulted step, the
\* failure happens with ChangeState = SCHEDULED, recovery runs cancel_change,
\* upload_artifacts and create_incident in that order, and the run ends
\* normally with ChangeState = CANCELLED and exactly one software incident.
C4_CancelBeforeImplement ==
    (faults \in {{"ERROR_ON_GET_DEVICE"}, {"ERROR_ON_CHECK_MODULE"}} /\ Done) =>
        /\ PrimaryCalls[Len(PrimaryCalls)].exc = error
        /\ PrimaryCalls[Len(PrimaryCalls)].pre.change_state = "SCHEDULED"
        /\ OpsOf(RecoveryCalls) = Recovery3("cancel_change")
        /\ AllOk(RecoveryCalls)
        /\ raised = NoError
        /\ change_state = "CANCELLED"
        /\ incidents = <<[class |-> "software", error |-> error]>>
        /\ error = IF faults = {"ERROR_ON_GET_DEVICE"}
                   THEN "GetDeviceError" ELSE "CheckModuleError"

C4_Witness ==
    /\ faults = {"ERROR_ON_CHECK_MODULE"}
    /\ Done
    /\ change_state = "CANCELLED"
    /\ Len(incidents) = 1

\* C5 (as claimed): when activation_pre_checks or activate_device is the only
\* faulted step, recovery runs close_change, upload_artifacts and
\* create_incident, and the run ends with ChangeState = CLOSED and exactly one
\* incident: service-offering for ActivationError (with ActivationState =
\* START_ACTIVATION), software for PreCheckError.
C5_CloseAfterImplement ==
    (faults \in {{"ERROR_ON_PRE_CHECKS"}, {"ERROR_ON_ACTIVATION"}} /\ Done) =>
        /\ OpsOf(RecoveryCalls) = Recovery3("close_change")
        /\ change_state = "CLOSED"
        /\ Len(incidents) = 1
        /\ incidents[1].class = IF error = "ActivationError"
                                THEN "service-offering" ELSE "software"
        /\ error = "ActivationError" => activation_state = "START_ACTIVATION"

\* the first call of handle_error was close_change and it raised CloseChangeError
CompensatingCloseFailed ==
    /\ RecoveryCalls # <<>>
    /\ RecoveryCalls[1].op = "close_change"
    /\ RecoveryCalls[1].exc = "CloseChangeError"

\* C6 (as claimed): when activate_device fails and the compensating
\* close_change fails too, that failure is caught inside handle_error: one
\* backoff and one retried close_change follow, and the run ends with no
\* incident (retry succeeded) or with one incident for the ActivationError.
C6_CompensatingCloseRetried ==
    (Done /\ error = "ActivationError" /\ CompensatingCloseFailed) =>
        /\ raised # "CloseChangeError"
        /\ sleeps = 1
        /\ Count(RecoveryCalls, "close_change") = 2
        /\ \/ incidents = <<>>
           \/ /\ Len(incidents) = 1
              /\ incidents[1].error = "ActivationError"

C8_OnlyCreateIncidentErrorEscapes ==
    Done => raised \in {NoError, "CreateIncidentError"}

StateOf(w) == <<w.change_state, w.activation_state, w.device>>

CloseCalledBeforeCompletion ==
    /\ last.op = "close_change"
    /\ last.pre.activation_state # "ACTIVATION_COMPLETED"

\* C9 (as claimed): a close_change call made while ActivationState is not
\* ACTIVATION_COMPLETED does not raise, whatever the fault pattern, and leaves
\* ChangeState, ActivationState and Device unchanged.
C9_CloseNeverRaises ==
    CloseCalledBeforeCompletion =>
        /\ last.exc = NoError
        /\ StateOf(Worker) = StateOf(last.pre)

\* C9 (amended): a close_change call made while ActivationState is not
\* ACTIVATION_COMPLETED leaves ChangeState, ActivationState and Device
\* unchanged under every fault pattern; it returns without raising when the
\* close-change fault is not injected and raises CloseChangeError when it is.
C9_CloseBeforeCompletionIsNoOp ==
    CloseCalledBeforeCompletion =>
        /\ StateOf(Worker) = StateOf(last.pre)
        /\ incidents = last.pre.incidents
        /\ last.exc = IF "ERROR_ON_CLOSE_CHANGE" \in faults
                      THEN "CloseChangeError" ELSE NoError

C9_Witness ==
    /\ CloseCalledBeforeCompletion
    /\ last.exc = NoError
    /\ change_state = "IMPLEMENT"
    /\ activation_state = "START_ACTIVATION"

\* C10: once ChangeState is CLOSED or CANCELLED no step of the run, recovery
\* included, changes it again.
C10_TerminalChangeState ==
    [][(change_state \in {"CLOSED", "CANCELLED"}) => (change_state' = change_state)]_vars

C10_Witness ==
    /\ change_state = "CLOSED"
    /\ last.by = "handle_error"
    /\ last.op = "upload_artifacts"
    /\ calls[Len(calls) - 1].pre.change_state = "CLOSED"

\* the flags of the calls that handle_error makes
CompensatingFlags ==
    {"ERROR_ON_CLOSE_CHANGE", "ERROR_ON_CANCEL_CHANGE",
     "ERROR_ON_UPLOAD_ARTIFACTS", "ERROR_ON_CREATE_INCIDENT"}

\* C11 (as claimed): when handle_error receives a GetDeviceError or a
\* CheckModuleError while ChangeState = IMPLEMENT and no compensating step is
\* faulted, it runs close_change, upload_artifacts and create_incident, never
\* cancel_change, records one incident for the error and ends with
\* ChangeState = CLOSED.
C11_CloseWhenImplemented ==
    (/\ Done
     /\ error \in {"GetDeviceError", "CheckModuleError"}
     /\ faults \cap CompensatingFlags = {}
     /\ RecoveryCalls # <<>>
     /\ RecoveryCalls[1].pre.change_state = "IMPLEMENT") =>
        /\ OpsOf(RecoveryCalls) = Recovery3("close_change")
        /\ Count(RecoveryCalls, "cancel_change") = 0
        /\ raised = NoError
        /\ incidents = <<[class |-> "software", error |-> error]>>
        /\ change_state = "CLOSED"

\* C12: an ImplementChangeError (from implement_change in the primary
\* sequence, where ChangeState = SCHEDULED) or a CancelChangeError handed to
\* handle_error matches no if statement: no compensating call is made, there
\* is no backoff and no incident, and ChangeState, ActivationState and Device
\* stay as they were at the failure.
C12_UnmatchedKindsFallThrough ==
    error \in {"ImplementChangeError", "CancelChangeError"} =>
        /\ RecoveryCalls = <<>>
        /\ pc \notin {"chain", "sleep"}
        /\ sleeps = 0
        /\ incidents = <<>>
        /\ StateOf(Worker) = StateOf(last.pre)
        /\ PrimaryCalls # <<>> =>
              /\ error = "ImplementChangeError"
              /\ last.op = "implement_change"
              /\ change_state = "SCHEDULED"
        /\ Done =>
              raised = IF "ERROR_ON_CREATE_INCIDENT" \in faults
                       THEN "CreateIncidentError" ELSE NoError

C12_Witness ==
    /\ Done
    /\ handled = 1
    /\ error = "CancelChangeError"
    /\ raised = NoError
    /\ change_state = "IMPLEMENT"
    /\ activation_state = "PRE_CHECK"

\* C13 (as claimed): when handle_error receives an UploadArtifactsError there
\* is exactly one backoff and exactly one retry of upload_artifacts, no
\* close_change or cancel_change, no change of lifecycle state and no incident.
C13_AlwaysOneBackoffAndUpload ==
    (Done /\ error = "UploadArtifactsError") =>
        /\ sleeps = 1
        /\ OpsOf(RecoveryCalls) = <<"upload_artifacts">>
        /\ incidents = <<>>
        /\ StateOf(Worker) = StateOf(PrimaryCalls[Len(PrimaryCalls)].pre)

\* C13 (amended): when handle_error receives an UploadArtifactsError and does
\* not stop at its entry check of the incident fault, there is exactly one
\* backoff and exactly one retry of upload_artifacts; whether the retry
\* succeeds or fails (its UploadArtifactsError then leaves the run) there is no
\* close_change or cancel_change, no change of lifecycle state and no incident.
\* With the incident fault set at the entry, CreateIncidentError leaves the run
\* before any backoff or retry.
C13_UploadRetriedOnce ==
    LET R == RecoveryCalls
    IN  error = "UploadArtifactsError" =>
            /\ Count(R, "close_change") = 0
            /\ Count(R, "cancel_change") = 0
            /\ incidents = <<>>
            /\ StateOf(Worker) = StateOf(PrimaryCalls[Len(PrimaryCalls)].pre)
            /\ Done =>
                  IF raised = "CreateIncidentError"
                  THEN sleeps = 0 /\ R = <<>>
                  ELSE /\ sleeps = 1
                       /\ OpsOf(R) = <<"upload_artifacts">>
                       /\ raised = R[1].exc
                       /\ raised \in {NoError, "UploadArtifactsError"}

C13_Witness ==
    /\ Done
    /\ error = "UploadArtifactsError"
    /\ sleeps = 1
    /\ OpsOf(RecoveryCalls) = <<"upload_artifacts">>
    /\ raised = NoError
    /\ change_state = "CLOSED"

\* C14 (as claimed): with the incident fault injected a create_incident call
\* fails with CreateIncidentError on both paths, and that error leaves the
\* recovery attempt.
C14_BothIncidentPathsFallible ==
    [][(/\ Len(calls') = Len(calls) + 1
        /\ last'.op = "create_incident"
        /\ "ERROR_ON_CREATE_INCIDENT" \in faults) =>
           (/\ last'.exc = "CreateIncidentError"
            /\ raised' = "CreateIncidentError"
            /\ pc' = "done")]_vars

\* the worker after a failed call: as before the call, except that
\* activate_device has entered START_ACTIVATION
AfterFailure(c) ==
    IF c.op = "activate_device"
    THEN [c.pre EXCEPT !.activation_state = "START_ACTIVATION"]
    ELSE c.pre

\* C15: a step method that raises leaves ChangeState, ActivationState and
\* Device as they were before the call, except activate_device, which leaves
\* ActivationState = START_ACTIVATION; ActivationState becomes
\* ACTIVATION_COMPLETED only by an activate_device call that returns.
C15_FailedStepsKeepState ==
    /\ [](last.exc # NoError => StateOf(Worker) = StateOf(AfterFailure(last)))
    /\ [][(activation_state' = "ACTIVATION_COMPLETED"
            /\ activation_state # "ACTIVATION_COMPLETED") =>
              (last'.op = "activate_device" /\ last'.exc = NoError)]_vars

C15_Witness ==
    /\ last.op = "activate_device"
    /\ last.exc = "ActivationError"
    /\ last.pre.activation_state = "PRE_CHECK"
    /\ activation_state = "START_ACTIVATION"
    /\ change_state = "IMPLEMENT"

\* a step of the primary sequence has raised
PrimaryFailed ==
    /\ PrimaryCalls # <<>>
    /\ PrimaryCalls[Len(PrimaryCalls)].exc # NoError

\* C16: in a run of the standard sequence ActivationState in {PRE_CHECK,
\* START_ACTIVATION, ACTIVATION_COMPLETED} implies ChangeState in {IMPLEMENT,
\* CLOSED}; a PreCheckError or ActivationError reaches handle_error with
\* ChangeState = IMPLEMENT; cancel_change is never called in a run in which
\* implement_change returned.
C16_PreCheckOnlyAfterImplement ==
    /\ activation_state \in {"PRE_CHECK", "START_ACTIVATION",
                             "ACTIVATION_COMPLETED"}
          => change_state \in {"IMPLEMENT", "CLOSED"}
    /\ error \in {"PreCheckError", "ActivationError"} =>
          /\ PrimaryCalls[Len(PrimaryCalls)].pre.change_state = "IMPLEMENT"
          /\ pc = "handle_error" => change_state = "IMPLEMENT"
    /\ (\E k \in 1..Len(calls) :
            calls[k].op = "implement_change" /\ calls[k].exc = NoError)
          => Count(calls, "cancel_change") = 0

C16_Witness ==
    /\ pc = "handle_error"
    /\ error = "PreCheckError"
    /\ change_state = "IMPLEMENT"
    /\ activation_state = "CHECK_MODULE"

\* the run of main, as opposed to methods called directly
RunOfMain == pc = "run_activation" \/ PrimaryCalls # <<>>

\* C17 (as claimed): in every reachable state, for any sequence of step and
\* recovery actions, ChangeState = CLOSED implies ActivationState =
\* ACTIVATION_COMPLETED.
C17_ClosedImpliesCompleted ==
    change_state = "CLOSED" => activation_state = "ACTIVATION_COMPLETED"

\* C17 (amended): ChangeState becomes CLOSED only by a close_change call made
\* while ActivationState = ACTIVATION_COMPLETED, and in a run of the standard
\* sequence CLOSED implies ACTIVATION_COMPLETED in every state; step methods
\* called directly after the close can move ActivationState away again.
C17_ClosedOnlyWhenCompleted ==
    /\ [][(change_state' = "CLOSED" /\ change_state # "CLOSED") =>
            (/\ activation_state = "ACTIVATION_COMPLETED"
             /\ activation_state' = "ACTIVATION_COMPLETED"
             /\ last'.op = "close_change"
             /\ last'.exc = NoError)]_vars
    /\ [](RunOfMain => C17_ClosedImpliesCompleted)

C17_Witness ==
    /\ pc = "steps"
    /\ last.op = "close_change"
    /\ last.pre.change_state = "IMPLEMENT"
    /\ last.pre.activation_state = "ACTIVATION_COMPLETED"
    /\ change_state = "CLOSED"

\* C18: in a run of the standard sequence at most one incident is recorded
\* and at most one backoff is performed, and an incident is recorded only
\* after a step of the primary sequence has failed.
C18_AtMostOneIncidentAndBackoff ==
    /\ Len(incidents) <= 1
    /\ Count(calls, "create_incident") <= 1
    /\ sleeps <= 1
    /\ incidents # <<>> => (PrimaryFailed /\ handled = 1)

C18_Witness ==
    /\ Done
    /\ Len(incidents) = 1
    /\ sleeps = 1
    /\ error = "CloseChangeError"

\* C19: with the incident fault injected, a failure of a primary step makes
\* handle_error raise CreateIncidentError before any compensating call: no
\* close_change, cancel_change, upload_artifacts or backoff, no incident, and
\* ChangeState and ActivationState stay as they were at the primary failure,
\* also for ImplementChangeError and UploadArtifactsError.
C19_IncidentFaultStopsRecovery ==
    "ERROR_ON_CREATE_INCIDENT" \in faults =>
        /\ RecoveryCalls = <<>>
        /\ pc \notin {"dispatch", "chain", "sleep"}
        /\ sleeps = 0
        /\ incidents = <<>>
        /\ change_state # "CANCELLED"
        /\ PrimaryFailed =>
              /\ last.exc = error
              /\ StateOf(Worker) = StateOf(AfterFailure(last))
              /\ change_state = "CLOSED" => last.pre.change_state = "CLOSED"
              /\ handled = 1 <=> Done
              /\ Done => raised = "CreateIncidentError"

C19_Witness ==
    /\ "ERROR_ON_CREATE_INCIDENT" \in faults
    /\ Done
    /\ handled = 1
    /\ error = "ImplementChangeError"
    /\ raised = "CreateIncidentError"
    /\ change_state = "SCHEDULED"

\* C20: every run of the standard sequence, with faults fixed or chosen per
\* call, reaches a final outcome, after at most seven primary calls, one
\* handle_error invocation, three compensating step calls and one incident
\* creation; no method is called more than twice.
C20_RunTerminates ==
    /\ <>Done
    /\ [](/\ Len(PrimaryCalls) <= 7
          /\ handled <= 1
          /\ Len(RecoveryCalls) - Count(RecoveryCalls, "create_incident") <= 3
          /\ Count(calls, "create_incident") <= 1
          /\ \A op \in Ops : Count(calls, op) <= 2)

C20_Witness ==
    /\ Done
    /\ Len(PrimaryCalls) = 6
    /\ Count(calls, "close_change") = 2
    /\ Len(RecoveryCalls) = 3
    /\ Len(incidents) = 1

====
